---- MODULE Spec2Model ----
(***************************************************************************)
(* State-machine model of sockeye/transformer.py: the pre/post process     *)
(* block mini-language (n, r, d), the position-wise feed-forward layer,    *)
(* the encoder and decoder block pipelines and the autoregressive bias.    *)
(* Symbols of the tensor graph are modelled as records                     *)
(*   [expr  : prefix-notation sequence of operator / variable names,       *)
(*    shape : the shape the graph engine infers, <<>> when it cannot].     *)
(***************************************************************************)
EXTENDS Integers, Sequences, FiniteSets, TLC

VARIABLES pc, block, args, data, tmp, log, result, bias

vars == <<pc, block, args, data, tmp, log, result, bias>>

(* ------------------------------ bounds -------------------------------- *)
\* longest sequence string of a directly called TransformerProcessBlock
MaxSeqLen == 2
\* longest preprocess_sequence / postprocess_sequence of a TransformerConfig
MaxCfgSeqLen == 2
\* largest batch, positions and hidden dimension of a tensor
MaxBatch == 2
MaxLength == 2
MaxHidden == 2
\* largest max_length handed to get_autoregressive_bias
MaxBiasLen == 3
\* batch size, feed_forward_num_hidden and source_max_length of the encoder /
\* decoder block calls
BlockBatch == 2
FFNumHidden == 3
SourceMaxLength == 3

(* ----------------------------- constants ------------------------------ *)
\* the factor of get_bias
LARGE_NEGATIVE == -99999999
\* significand width of numpy.float32, the dtype of the bias
FLOAT32_SIGNIFICAND == 24

\* the step characters: n, r, d are known, x stands for any other character
Steps == {"n", "r", "d", "x"}
\* dropout rates, in tenths
Rates == {0, 1}

Range(s) == {s[i] : i \in 1..Len(s)}
SeqsUpTo(S, n) == UNION {[1..k -> S] : k \in 0..n}

RECURSIVE Prod(_)
Prod(s) == IF s = <<>> THEN 1 ELSE Head(s) * Prod(Tail(s))

(* ------------------------------ symbols ------------------------------- *)
NoShape == <<>>
None == [expr |-> <<"None">>, shape |-> NoShape]
Variable(name, shape) == [expr |-> <<name>>, shape |-> shape]

(* mx.sym.reshape: the shape inference of the special codes used here.     *)
(* d > 0 takes one input dimension and emits d; -1 takes one and is        *)
(* inferred from the size; -3 merges two input dimensions; -4 splits one   *)
(* input dimension into the two dimensions that follow it in the target.   *)
RECURSIVE ReshapeWalk(_, _, _, _)
ReshapeWalk(in, tgt, src, out) ==
    IF tgt = <<>> THEN out
    ELSE LET d == Head(tgt) IN
      CASE d > 0 -> ReshapeWalk(in, Tail(tgt), src + 1, Append(out, d))
        [] d = -1 -> ReshapeWalk(in, Tail(tgt), src + 1, Append(out, -1))
        [] d = -3 -> IF src + 1 <= Len(in)
                     THEN ReshapeWalk(in, Tail(tgt), src + 2,
                                      Append(out, in[src] * in[src + 1]))
                     ELSE NoShape
        [] d = -4 -> IF Len(tgt) >= 3 /\ src <= Len(in)
                     THEN LET d0 == in[src]
                              a  == tgt[2]
                              b  == tgt[3]
                              d1 == IF a = -1 /\ b > 0 THEN d0 \div b ELSE a
                              d2 == IF b = -1 /\ a > 0 THEN d0 \div a ELSE b
                          IN IF d1 > 0 /\ d2 > 0 /\ d1 * d2 = d0
                             THEN ReshapeWalk(in, SubSeq(tgt, 4, Len(tgt)), src + 1,
                                              out \o <<d1, d2>>)
                             ELSE NoShape
                     ELSE NoShape
        [] OTHER -> NoShape

InferReshape(in, tgt) ==
    IF in = NoShape THEN NoShape
    ELSE LET walked == ReshapeWalk(in, tgt, 1, <<>>)
             holes  == {i \in 1..Len(walked) : walked[i] = -1}
             known  == Prod([i \in 1..Len(walked) |->
                               IF walked[i] = -1 THEN 1 ELSE walked[i]])
             filled == [i \in 1..Len(walked) |->
                          IF walked[i] = -1 THEN Prod(in) \div known ELSE walked[i]]
         IN IF walked = NoShape \/ Cardinality(holes) > 1 THEN NoShape
            ELSE IF Prod(filled) = Prod(in) THEN filled ELSE NoShape

reshape(sym, tgt) ==
    [expr |-> <<"reshape">> \o sym.expr, shape |-> InferReshape(sym.shape, tgt)]

\* mx.sym._internal._plus: elementwise sum of two symbols of one shape
plus(lhs, rhs) ==
    [expr  |-> <<"_plus">> \o lhs.expr \o rhs.expr,
     shape |-> IF lhs.shape = rhs.shape THEN lhs.shape ELSE NoShape]

\* mx.sym.Dropout: shape preserving
Dropout(sym) == [expr |-> <<"Dropout">> \o sym.expr, shape |-> sym.shape]

\* mx.sym.FullyConnected on a (rows, in) symbol: (rows, num_hidden)
FullyConnected(sym, num_hidden) ==
    [expr  |-> <<"FullyConnected">> \o sym.expr,
     shape |-> IF Len(sym.shape) = 2 THEN <<sym.shape[1], num_hidden>> ELSE NoShape]

\* mx.sym.Activation: shape preserving
Activation(sym) == [expr |-> <<"relu">> \o sym.expr, shape |-> sym.shape]

\* layers.LayerNormalization.normalize: 2-d in, 2-d out, rows normalized
normalize(sym) ==
    [expr  |-> <<"layer_norm">> \o sym.expr,
     shape |-> IF Len(sym.shape) = 2 THEN sym.shape ELSE NoShape]

\* layers.MultiHeadSelfAttention.__call__: same shape as its input
MultiHeadSelfAttention(sym, lengths, length, bias_sym) ==
    [expr  |-> <<"att_self">> \o sym.expr \o lengths.expr \o bias_sym.expr,
     shape |-> sym.shape]

\* layers.MultiHeadAttention.__call__: the shape of the queries
MultiHeadAttention(queries, length, memory, memory_lengths, memory_max_length) ==
    [expr  |-> <<"att_enc">> \o queries.expr \o memory.expr \o memory_lengths.expr,
     shape |-> queries.shape]

(* ----------------------- TransformerProcessBlock ---------------------- *)
\* __init__: layer_norm exists exactly when the sequence holds an "n"
TransformerProcessBlock(sequence, num_hidden, dropout) ==
    [sequence   |-> sequence,
     num_hidden |-> num_hidden,
     dropout    |-> dropout,
     layer_norm |-> "n" \in Range(sequence)]

\* _reshape_and_normalize, mutated: the split names length first
reshape_and_normalize_swapped(self, d, length) ==
    reshape(normalize(reshape(d, <<-3, self.num_hidden>>)),
            <<-4, length, -1, self.num_hidden>>)

\* _reshape_and_normalize: (batch, length, hidden) -> (batch * length, hidden)
\* -> normalize -> (batch, length, hidden)
reshape_and_normalize(self, d, length) ==
    reshape(normalize(reshape(d, <<-3, self.num_hidden>>)),
            <<-4, -1, length, self.num_hidden>>)

\* the test of the "d" step, mutated: a rate of 0 still calls Dropout
dropout_applies_at_zero(self) == self.dropout >= 0

\* the test of the "d" step: self.dropout > 0.0
dropout_applies(self) == self.dropout > 0

\* the else branch of the step loop, mutated: an unknown step is skipped
unknown_step_skipped(step) == FALSE

\* the else branch of the step loop: any step other than r, n, d raises
unknown_step(step) == step \notin {"r", "n", "d"}

\* the for loop of __call__ over the steps that remain; ops collects the
\* names of the symbols the loop creates (residual, normalized, dropout)
RECURSIVE process_steps(_, _, _, _, _, _)
process_steps(self, rest, d, prev, length, ops) ==
    IF rest = <<>> THEN [status |-> "ok", data |-> d, ops |-> ops]
    ELSE LET step == Head(rest) IN
      CASE step = "r" ->
             process_steps(self, Tail(rest), plus(d, prev), prev, length,
                           Append(ops, "residual"))
        [] step = "n" ->
             IF self.layer_norm
             THEN process_steps(self, Tail(rest),
                                reshape_and_normalize(self, d, length),
                                prev, length, Append(ops, "normalized"))
             ELSE [status |-> "AttributeError", data |-> None, ops |-> ops]
        [] step = "d" ->
             IF dropout_applies(self)
             THEN process_steps(self, Tail(rest), Dropout(d), prev, length,
                                Append(ops, "dropout"))
             ELSE process_steps(self, Tail(rest), d, prev, length, ops)
        [] OTHER ->
             IF unknown_step(step)
             THEN [status |-> "ValueError", data |-> None, ops |-> ops]
             ELSE process_steps(self, Tail(rest), d, prev, length, ops)

\* __call__, mutated: the residual precondition is checked at the "r" step
process_call_lazy_check(self, d, prev, length) ==
    IF self.sequence = <<>> THEN [status |-> "ok", data |-> d, ops |-> <<>>]
    ELSE LET first_r == IF "r" \in Range(self.sequence)
                        THEN CHOOSE i \in 1..Len(self.sequence) :
                               /\ self.sequence[i] = "r"
                               /\ \A j \in 1..(i - 1) : self.sequence[j] # "r"
                        ELSE Len(self.sequence) + 1
             head == process_steps(self, SubSeq(self.sequence, 1, first_r - 1),
                                   d, prev, length, <<>>)
         IN IF prev # None \/ first_r > Len(self.sequence)
            THEN process_steps(self, self.sequence, d, prev, length, <<>>)
            ELSE IF head.status # "ok" THEN head
            ELSE [status |-> "AssertionError", data |-> None, ops |-> head.ops]

\* __call__, mutated: the empty sequence hands back prev
process_call_empty_returns_prev(self, d, prev, length) ==
    IF self.sequence = <<>> THEN [status |-> "ok", data |-> prev, ops |-> <<>>]
    ELSE IF prev = None /\ "r" \in Range(self.sequence)
    THEN [status |-> "AssertionError", data |-> None, ops |-> <<>>]
    ELSE process_steps(self, self.sequence, d, prev, length, <<>>)

\* __call__: the result is [status, data, ops]; status is "ok" or the
\* exception raised, data the symbol returned (None when it raises)
process_call(self, d, prev, length) ==
    IF self.sequence = <<>> THEN [status |-> "ok", data |-> d, ops |-> <<>>]
    ELSE IF prev = None /\ "r" \in Range(self.sequence)
    THEN [status |-> "AssertionError", data |-> None, ops |-> <<>>]
    ELSE process_steps(self, self.sequence, d, prev, length, <<>>)

(* ----------------------- TransformerFeedForward ----------------------- *)
TransformerFeedForward(num_hidden, num_model, dropout) ==
    [num_hidden |-> num_hidden, num_model |-> num_model, dropout |-> dropout]

\* __call__: flatten, project, relu, optional dropout, project, restore
feed_forward_call(self, x, length) ==
    LET flat == reshape(x, <<-3, -1>>)
        h    == Activation(FullyConnected(flat, self.num_hidden))
        hd   == IF self.dropout > 0 THEN Dropout(h) ELSE h
        y    == FullyConnected(hd, self.num_model)
    IN reshape(y, <<-1, length, self.num_model>>)

(* ------------------------- autoregressive bias ------------------------ *)
\* numpy arrays are [shape, flat]: the elements in row-major order
np_ones(rows, cols) == [shape |-> <<rows, cols>>, flat |-> [k \in 1..(rows * cols) |-> 1]]

\* np.triu, mutated: the lower triangle is kept instead of the upper one
np_tril(m, k) ==
    LET cols == m.shape[2] IN
    [shape |-> m.shape,
     flat  |-> [idx \in 1..Len(m.flat) |->
                  IF ((idx - 1) % cols) - ((idx - 1) \div cols) <= -k
                  THEN m.flat[idx] ELSE 0]]

\* np.triu(m, k): the elements on and above the k-th diagonal, 0 elsewhere
np_triu(m, k) ==
    LET cols == m.shape[2] IN
    [shape |-> m.shape,
     flat  |-> [idx \in 1..Len(m.flat) |->
                  IF ((idx - 1) % cols) - ((idx - 1) \div cols) >= k
                  THEN m.flat[idx] ELSE 0]]

\* np.reshape: the same elements in the same order under another shape
np_reshape(m, shape) == [shape |-> shape, flat |-> m.flat]

\* the unit in the last place of the float32 nearest to a magnitude
RECURSIVE Ulp(_, _)
Ulp(mag, u) == IF mag \div u < 2 ^ FLOAT32_SIGNIFICAND THEN u ELSE Ulp(mag, 2 * u)

\* conversion of a number to float32: round to nearest, ties to even
ToFloat32(x) ==
    LET mag  == IF x < 0 THEN -x ELSE x
        u    == Ulp(mag, 1)
        q    == mag \div u
        r    == mag % u
        up   == 2 * r > u \/ (2 * r = u /\ q % 2 = 1)
        near == (IF up THEN q + 1 ELSE q) * u
    IN IF x < 0 THEN -near ELSE near

\* mx.nd.array of a numpy array: an NDArray of the default dtype float32
nd_array(m) == [shape |-> m.shape, flat |-> [k \in 1..Len(m.flat) |-> ToFloat32(m.flat[k])]]

\* get_bias, mutated: the diagonal is masked as well (k = 0)
get_bias_diagonal_masked(length) ==
    LET upper_triangle == np_triu(np_ones(length, length), 0)
        scaled == [shape |-> upper_triangle.shape,
                   flat  |-> [k \in 1..Len(upper_triangle.flat) |->
                                LARGE_NEGATIVE * upper_triangle.flat[k]]]
    IN nd_array(np_reshape(scaled, <<1, length, length>>))

\* AutoRegressiveBias.get_bias
get_bias(length) ==
    LET upper_triangle == np_triu(np_ones(length, length), 1)
        scaled == [shape |-> upper_triangle.shape,
                   flat  |-> [k \in 1..Len(upper_triangle.flat) |->
                                LARGE_NEGATIVE * upper_triangle.flat[k]]]
    IN nd_array(np_reshape(scaled, <<1, length, length>>))

\* str() of a non-negative int, as the sequence of its decimal digits
DigitChars == <<"0", "1", "2", "3", "4", "5", "6", "7", "8", "9">>
RECURSIVE str(_)
str(n) == IF n < 10 THEN <<DigitChars[n + 1]>>
          ELSE Append(str(n \div 10), DigitChars[(n % 10) + 1])

\* int() of a sequence of decimal digits
RECURSIVE int(_)
int(s) == IF s = <<>> THEN 0
          ELSE 10 * int(SubSeq(s, 1, Len(s) - 1))
               + ((CHOOSE d \in 1..10 : DigitChars[d] = s[Len(s)]) - 1)

\* AutoRegressiveBiasProp.__init__: the custom operator's keyword arguments
\* arrive as strings
AutoRegressiveBiasProp(length) == [length |-> int(length)]

\* AutoRegressiveBiasProp.infer_shape: the one output's shape
infer_shape(self) == <<1, self.length, self.length>>

\* AutoRegressiveBiasProp.create_operator and AutoRegressiveBias.__init__
AutoRegressiveBias(length) == [bias |-> get_bias(length)]

\* AutoRegressiveBias.forward: the bias assigned to the float32 output
forward(self) == nd_array(self.bias)

\* entry [0, i, j] of a (1, rows, cols) array, i and j counted from 0
Entry(m, i, j) == m.flat[i * m.shape[3] + j + 1]

(* --------------------------- configurations --------------------------- *)
\* TransformerConfig: the fields the blocks read
TransformerConfig(model_size, feed_forward_num_hidden, dropout_relu, dropout_prepost, preprocess_sequence, postprocess_sequence) ==
    [model_size              |-> model_size,
     feed_forward_num_hidden |-> feed_forward_num_hidden,
     dropout_relu            |-> dropout_relu,
     dropout_prepost         |-> dropout_prepost,
     preprocess_sequence     |-> preprocess_sequence,
     postprocess_sequence    |-> postprocess_sequence]

Configs ==
    {TransformerConfig(MaxHidden, FFNumHidden, dr, dp, pre, post) :
        dr \in Rates, dp \in Rates,
        pre \in SeqsUpTo(Steps, MaxCfgSeqLen), post \in SeqsUpTo(Steps, MaxCfgSeqLen)}

\* TransformerEncoderBlock.__init__
TransformerEncoderBlock(config) ==
    [kind |-> "encoder",
     pre_self_attention  |-> TransformerProcessBlock(config.preprocess_sequence,
                                 config.model_size, config.dropout_prepost),
     post_self_attention |-> TransformerProcessBlock(config.postprocess_sequence,
                                 config.model_size, config.dropout_prepost),
     pre_ff  |-> TransformerProcessBlock(config.preprocess_sequence,
                                 config.model_size, config.dropout_prepost),
     ff      |-> TransformerFeedForward(config.feed_forward_num_hidden,
                                 config.model_size, config.dropout_relu),
     post_ff |-> TransformerProcessBlock(config.postprocess_sequence,
                                 config.model_size, config.dropout_prepost)]

\* TransformerDecoderBlock.__init__
TransformerDecoderBlock(config) ==
    [kind |-> "decoder",
     pre_self_attention  |-> TransformerProcessBlock(config.preprocess_sequence,
                                 config.model_size, config.dropout_prepost),
     post_self_attention |-> TransformerProcessBlock(config.postprocess_sequence,
                                 config.model_size, config.dropout_prepost),
     pre_enc_attention   |-> TransformerProcessBlock(config.preprocess_sequence,
                                 config.model_size, config.dropout_prepost),
     post_enc_attention  |-> TransformerProcessBlock(config.postprocess_sequence,
                                 config.model_size, config.dropout_prepost),
     pre_ff  |-> TransformerProcessBlock(config.preprocess_sequence,
                                 config.model_size, config.dropout_prepost),
     ff      |-> TransformerFeedForward(config.feed_forward_num_hidden,
                                 config.model_size, config.dropout_relu),
     post_ff |-> TransformerProcessBlock(config.postprocess_sequence,
                                 config.model_size, config.dropout_prepost)]

(* ------------------------------- state -------------------------------- *)
\* pc     : "idle", the stage of a block call about to run, "done", "raised"
\* block  : the object constructed (its kind and its members)
\* args   : the arguments of the call in progress
\* data   : the local variable data (encoder) / target (decoder)
\* tmp    : the value flowing from one stage into the next
\* log    : one entry per stage invoked, with the arguments it received
\* result : [status, data, ops] of the call: returned symbol or exception
\* bias   : what get_autoregressive_bias declared and produced
NoBlock  == [kind |-> "none"]
NoArgs   == [length |-> 0]
NoResult == [status |-> "none", data |-> None, ops |-> <<>>]
NoBias   == [length |-> 0, declared |-> NoShape,
             value |-> [shape |-> NoShape, flat |-> <<>>]]

Init ==
    /\ pc = "idle"
    /\ block = NoBlock
    /\ args = NoArgs
    /\ data = None
    /\ tmp = None
    /\ log = <<>>
    /\ result = NoResult
    /\ bias = NoBias

\* one stage invocation: the callee, what it was handed, how it ended
LogEntry(stage, d, prev, bias_sym, source, source_lengths, source_max_length, status, out) ==
    [stage |-> stage, data |-> d, prev |-> prev, bias |-> bias_sym,
     source |-> source, source_lengths |-> source_lengths,
     source_max_length |-> source_max_length, status |-> status, out |-> out]

(* ------------------- TransformerProcessBlock, called ------------------ *)
\* a process block constructed and called once on its own
ProcessBlockCall ==
    /\ pc = "idle"
    /\ \E sequence \in SeqsUpTo(Steps, MaxSeqLen), dropout \in Rates,
          num_hidden \in 1..MaxHidden, batch \in 1..MaxBatch,
          positions \in 1..MaxLength, hidden \in 1..MaxHidden,
          has_prev \in BOOLEAN, length \in 1..MaxLength :
         LET self == TransformerProcessBlock(sequence, num_hidden, dropout)
             d    == Variable("data", <<batch, positions, hidden>>)
             prev == IF has_prev
                     THEN Variable("prev", <<batch, positions, hidden>>)
                     ELSE None
             r    == process_call(self, d, prev, length)
         IN /\ block' = [kind |-> "process", self |-> self]
            /\ args' = [data |-> d, prev |-> prev, length |-> length]
            /\ result' = r
            /\ pc' = IF r.status = "ok" THEN "done" ELSE "raised"
    /\ UNCHANGED <<data, tmp, log, bias>>

(* ---------------------- get_autoregressive_bias ----------------------- *)
\* the custom operator registered, shape-inferred, created and run forward;
\* BlockGrad passes the forward value through
GetAutoregressiveBias ==
    /\ pc = "idle"
    /\ \E max_length \in 1..MaxBiasLen :
         LET prop == AutoRegressiveBiasProp(str(max_length))
             op   == AutoRegressiveBias(prop.length)
         IN /\ bias' = [length |-> max_length, declared |-> infer_shape(prop),
                        value |-> forward(op)]
            /\ block' = [kind |-> "bias"]
    /\ pc' = "done"
    /\ UNCHANGED <<args, data, tmp, log, result>>

(* -------------------- stages of the block pipelines ------------------- *)
\* a pre-process stage: blk(data, prev, length), the result flows on
PreStage(stage, blk, prev, next) ==
    LET r == process_call(blk, data, prev, args.length) IN
    /\ log' = Append(log, LogEntry(stage, data, prev, None, None, None, 0,
                                   r.status, r.data))
    /\ IF r.status = "ok"
       THEN /\ tmp' = r.data
            /\ pc' = next
            /\ UNCHANGED result
       ELSE /\ tmp' = None
            /\ pc' = "raised"
            /\ result' = r
    /\ UNCHANGED <<block, args, data, bias>>

\* a post-process stage: data = blk(tmp, prev, length)
PostStage(stage, blk, prev, next) ==
    LET r == process_call(blk, tmp, prev, args.length) IN
    /\ log' = Append(log, LogEntry(stage, tmp, prev, None, None, None, 0,
                                   r.status, r.data))
    /\ IF r.status = "ok"
       THEN /\ data' = r.data
            /\ pc' = next
            /\ result' = IF next = "done"
                         THEN [status |-> "ok", data |-> r.data, ops |-> <<>>]
                         ELSE result
       ELSE /\ data' = data
            /\ pc' = "raised"
            /\ result' = r
    /\ tmp' = None
    /\ UNCHANGED <<block, args, bias>>

\* the feed-forward stage: tmp = ff(tmp, length)
FFStage(stage, ff, next) ==
    LET y == feed_forward_call(ff, tmp, args.length) IN
    /\ log' = Append(log, LogEntry(stage, tmp, None, None, None, None, 0, "ok", y))
    /\ tmp' = y
    /\ pc' = next
    /\ UNCHANGED <<block, args, data, result, bias>>

(* ---------------------- TransformerEncoderBlock ----------------------- *)
\* the block constructed from a config and __call__ entered with its arguments
EncoderBlockEnter ==
    /\ pc = "idle"
    /\ \E config \in Configs, length \in 1..MaxLength :
         LET d == Variable("data", <<BlockBatch, length, config.model_size>>) IN
         /\ block' = TransformerEncoderBlock(config)
         /\ args' = [data |-> d,
                     data_length |-> Variable("data_length", <<BlockBatch>>),
                     length |-> length]
         /\ data' = d
    /\ pc' = "pre_self_attention"
    /\ UNCHANGED <<tmp, log, result, bias>>

\* mutated: the pre-process block is handed the data as previous value
EncPreSelfAttention_with_prev ==
    /\ block.kind = "encoder" /\ pc = "pre_self_attention"
    /\ PreStage("pre_self_attention", block.pre_self_attention, data, "self_attention")

EncPreSelfAttention ==
    /\ block.kind = "encoder" /\ pc = "pre_self_attention"
    /\ PreStage("pre_self_attention", block.pre_self_attention, None, "self_attention")

EncSelfAttention ==
    /\ block.kind = "encoder" /\ pc = "self_attention"
    /\ LET out == MultiHeadSelfAttention(tmp, args.data_length, args.length, None) IN
       /\ log' = Append(log, LogEntry("self_attention", tmp, None, None, None, None,
                                      0, "ok", out))
       /\ tmp' = out
    /\ pc' = "post_self_attention"
    /\ UNCHANGED <<block, args, data, result, bias>>

EncPostSelfAttention ==
    /\ block.kind = "encoder" /\ pc = "post_self_attention"
    /\ PostStage("post_self_attention", block.post_self_attention, data, "pre_ff")

EncPreFF ==
    /\ block.kind = "encoder" /\ pc = "pre_ff"
    /\ PreStage("pre_ff", block.pre_ff, None, "ff")

EncFF ==
    /\ block.kind = "encoder" /\ pc = "ff"
    /\ FFStage("ff", block.ff, "post_ff")

\* mutated: the residual of post_ff is the block's original input
EncPostFF_prev_is_input ==
    /\ block.kind = "encoder" /\ pc = "post_ff"
    /\ PostStage("post_ff", block.post_ff, args.data, "done")

EncPostFF ==
    /\ block.kind = "encoder" /\ pc = "post_ff"
    /\ PostStage("post_ff", block.post_ff, data, "done")

(* ---------------------- TransformerDecoderBlock ----------------------- *)
DecoderBlockEnter ==
    /\ pc = "idle"
    /\ \E config \in Configs, target_max_length \in 1..MaxLength,
          source_max_length \in {SourceMaxLength} :
         LET target == Variable("target",
                                <<BlockBatch, target_max_length, config.model_size>>)
         IN
         /\ block' = TransformerDecoderBlock(config)
         /\ args' = [target |-> target,
                     target_lengths |-> Variable("target_lengths", <<BlockBatch>>),
                     length |-> target_max_length,
                     target_bias |-> Variable("target_bias",
                                       <<1, target_max_length, target_max_length>>),
                     source |-> Variable("source",
                                  <<BlockBatch, source_max_length, config.model_size>>),
                     source_lengths |-> Variable("source_lengths", <<BlockBatch>>),
                     source_max_length |-> source_max_length]
         /\ data' = target
    /\ pc' = "pre_self_attention"
    /\ UNCHANGED <<tmp, log, result, bias>>

DecPreSelfAttention ==
    /\ block.kind = "decoder" /\ pc = "pre_self_attention"
    /\ PreStage("pre_self_attention", block.pre_self_attention, None, "self_attention")

\* mutated: the causal bias is left out of the self-attention call
DecSelfAttention_no_bias ==
    /\ block.kind = "decoder" /\ pc = "self_attention"
    /\ LET out == MultiHeadSelfAttention(tmp, args.target_lengths, args.length, None) IN
       /\ log' = Append(log, LogEntry("self_attention", tmp, None, None,
                                      None, None, 0, "ok", out))
       /\ tmp' = out
    /\ pc' = "post_self_attention"
    /\ UNCHANGED <<block, args, data, result, bias>>

DecSelfAttention ==
    /\ block.kind = "decoder" /\ pc = "self_attention"
    /\ LET out == MultiHeadSelfAttention(tmp, args.target_lengths, args.length,
                                         args.target_bias) IN
       /\ log' = Append(log, LogEntry("self_attention", tmp, None, args.target_bias,
                                      None, None, 0, "ok", out))
       /\ tmp' = out
    /\ pc' = "post_self_attention"
    /\ UNCHANGED <<block, args, data, result, bias>>

DecPostSelfAttention ==
    /\ block.kind = "decoder" /\ pc = "post_self_attention"
    /\ PostStage("post_self_attention", block.post_self_attention, data,
                 "pre_enc_attention")

DecPreEncAttention ==
    /\ block.kind = "decoder" /\ pc = "pre_enc_attention"
    /\ PreStage("pre_enc_attention", block.pre_enc_attention, None, "enc_attention")

DecEncAttention ==
    /\ block.kind = "decoder" /\ pc = "enc_attention"
    /\ LET out == MultiHeadAttention(tmp, args.length, args.source,
                                     args.source_lengths, args.source_max_length) IN
       /\ log' = Append(log, LogEntry("enc_attention", tmp, None, None, args.source,
                                      args.source_lengths, args.source_max_length,
                                      "ok", out))
       /\ tmp' = out
    /\ pc' = "post_enc_attention"
    /\ UNCHANGED <<block, args, data, result, bias>>

DecPostEncAttention ==
    /\ block.kind = "decoder" /\ pc = "post_enc_attention"
    /\ PostStage("post_enc_attention", block.post_enc_attention, data, "pre_ff")

DecPreFF ==
    /\ block.kind = "decoder" /\ pc = "pre_ff"
    /\ PreStage("pre_ff", block.pre_ff, None, "ff")

DecFF ==
    /\ block.kind = "decoder" /\ pc = "ff"
    /\ FFStage("ff", block.ff, "post_ff")

DecPostFF ==
    /\ block.kind = "decoder" /\ pc = "post_ff"
    /\ PostStage("post_ff", block.post_ff, data, "done")

(* --------------------------- specification ---------------------------- *)
\* the process block and the bias, each called on its own
NextUnits ==
    \/ ProcessBlockCall
    \/ GetAutoregressiveBias

\* the encoder and decoder block calls, stage by stage
NextBlocks ==
    \/ EncoderBlockEnter
    \/ EncPreSelfAttention
    \/ EncSelfAttention
    \/ EncPostSelfAttention
    \/ EncPreFF
    \/ EncFF
    \/ EncPostFF
    \/ DecoderBlockEnter
    \/ DecPreSelfAttention
    \/ DecSelfAttention
    \/ DecPostSelfAttention
    \/ DecPreEncAttention
    \/ DecEncAttention
    \/ DecPostEncAttention
    \/ DecPreFF
    \/ DecFF
    \/ DecPostFF

Next == NextUnits \/ NextBlocks

Spec == Init /\ [][Next]_vars
SpecUnits == Init /\ [][NextUnits]_vars
SpecBlocks == Init /\ [][NextBlocks]_vars

(* ------------------------------ properties ---------------------------- *)
Count(s, x) == Cardinality({i \in 1..Len(s) : s[i] = x})
Known == {"n", "r", "d"}
BiasDone == block.kind = "bias" /\ pc = "done"
ProcessCalled == block.kind = "process" /\ pc \in {"done", "raised"}

\* C1 as stated: get_bias(length) has shape (1, length, length), every entry
\* above the diagonal equals -99999999, every other entry is 0, and
\* infer_shape declares the same shape.
C1_AsStated ==
    BiasDone =>
      LET b == get_bias(bias.length) IN
      /\ b.shape = <<1, bias.length, bias.length>>
      /\ Len(b.flat) = bias.length * bias.length
      /\ \A i, j \in 0..(bias.length - 1) :
           Entry(b, i, j) = IF i < j THEN LARGE_NEGATIVE ELSE 0
      /\ bias.declared = b.shape

\* C1 amended: get_bias(length) has shape (1, length, length), every entry
\* above the diagonal equals -99999999 rounded to float32, which is
\* -100000000, every entry on or below the diagonal is 0 (so get_bias(1) is
\* the 1x1 zero matrix), and infer_shape declares the same shape.
C1_BiasLayout ==
    BiasDone =>
      LET b == get_bias(bias.length) IN
      /\ b.shape = <<1, bias.length, bias.length>>
      /\ Len(b.flat) = bias.length * bias.length
      /\ \A i, j \in 0..(bias.length - 1) :
           Entry(b, i, j) = IF i < j THEN -100000000 ELSE 0
      /\ ToFloat32(LARGE_NEGATIVE) = -100000000
      /\ (bias.length = 1 => b.flat = <<0>>)
      /\ bias.declared = b.shape

C1_Witness ==
    /\ BiasDone
    /\ bias.length = 3
    /\ Entry(get_bias(3), 0, 2) < 0
    /\ Entry(get_bias(3), 2, 0) = 0

C3_ResidualNeedsPrev ==
    (/\ ProcessCalled
     /\ "r" \in Range(block.self.sequence)
     /\ args.prev = None)
    => /\ pc = "raised"
       /\ result.status = "AssertionError"
       /\ result.ops = <<>>
       /\ result.data = None

C3_Witness ==
    /\ ProcessCalled
    /\ block.self.sequence = <<"x", "r">>
    /\ args.prev = None
    /\ result.status = "AssertionError"

\* C4: a call of a process block whose non-empty sequence holds a character
\* outside {n, r, d} ends in an error and returns no tensor; a call with a
\* sequence over {n, r, d} and prev present raises no unknown-step error.
C4_UnknownStepFatal ==
    ProcessCalled =>
      /\ (~(Range(block.self.sequence) \subseteq Known)
            => /\ pc = "raised"
               /\ result.status \in {"ValueError", "AssertionError"}
               /\ result.data = None)
      /\ (Range(block.self.sequence) \subseteq Known /\ args.prev # None
            => /\ result.status = "ok"
               /\ pc = "done")

C4_Witness ==
    /\ ProcessCalled
    /\ block.self.sequence = <<"n", "x">>
    /\ args.prev # None
    /\ block.self.dropout > 0
    /\ result.status = "ValueError"

\* C5: a process block with the empty sequence returns exactly the data it
\* was given, applies no operation and raises nothing, with or without prev.
C5_EmptyIsIdentity ==
    (ProcessCalled /\ block.self.sequence = <<>>)
    => /\ pc = "done"
       /\ result.status = "ok"
       /\ result.data = args.data
       /\ result.ops = <<>>

C5_Witness ==
    /\ ProcessCalled
    /\ block.self.sequence = <<>>
    /\ args.prev # None
    /\ args.prev # args.data
    /\ result.data = args.data

\* C6: in a call with a sequence over {n, r, d}, a Dropout is applied at each
\* "d" step if and only if the rate is > 0; with rate 0 a "d" step leaves
\* the data the very same value, so the block "d" returns its input.
C6_DropoutZeroNoOp ==
    (/\ ProcessCalled
     /\ Range(block.self.sequence) \subseteq Known
     /\ result.status = "ok")
    => LET self == block.self
           no_d == SelectSeq(self.sequence, LAMBDA c : c # "d")
       IN /\ Count(result.ops, "dropout")
               = IF self.dropout > 0 THEN Count(self.sequence, "d") ELSE 0
          /\ Count(result.data.expr, "Dropout") = Count(result.ops, "dropout")
          /\ (self.dropout = 0 =>
                result.data = process_steps(self, no_d, args.data, args.prev,
                                            args.length, <<>>).data)
          /\ (self.dropout = 0 /\ self.sequence = <<"d">> => result.data = args.data)

C6_Witness ==
    /\ ProcessCalled
    /\ block.self.sequence = <<"d">>
    /\ block.self.dropout = 0
    /\ result.status = "ok"
    /\ result.data = args.data

\* C9: for data of shape (batch, length, num_hidden), _reshape_and_normalize
\* hands back a tensor of exactly that shape, its positions dimension equal
\* to the length argument and its element count unchanged; so does the
\* process block "n".
C9_ReshapeRoundTrip ==
    (/\ ProcessCalled
     /\ args.data.shape[2] = args.length
     /\ args.data.shape[3] = block.self.num_hidden)
    => LET out == reshape_and_normalize(block.self, args.data, args.length) IN
       /\ out.shape = args.data.shape
       /\ out.shape[2] = args.length
       /\ Prod(out.shape) = Prod(args.data.shape)
       /\ reshape(args.data, <<-3, block.self.num_hidden>>).shape
            = <<args.data.shape[1] * args.length, block.self.num_hidden>>
       /\ (block.self.sequence = <<"n">> =>
             /\ result.status = "ok"
             /\ result.data = out)

C9_Witness ==
    /\ ProcessCalled
    /\ block.self.sequence = <<"n">>
    /\ args.data.shape = <<1, 2, 2>>
    /\ args.length = 2
    /\ block.self.num_hidden = 2
    /\ result.data.shape = <<1, 2, 2>>

StageNames == [k \in 1..Len(log) |-> log[k].stage]

\* C7: a successful encoder block call runs pre_self_attention,
\* self_attention, post_self_attention, pre_ff, ff, post_ff, once each in that
\* order; the pre stages get prev = None, post_self_attention gets the
\* block's input as prev, post_ff gets the result of post_self_attention as
\* prev, and the result of post_ff is returned.
C7_EncoderPipeline ==
    (block.kind = "encoder" /\ pc = "done")
    => /\ StageNames = <<"pre_self_attention", "self_attention",
                         "post_self_attention", "pre_ff", "ff", "post_ff">>
       /\ log[1].data = args.data /\ log[1].prev = None
       /\ log[2].data = log[1].out
       /\ log[3].data = log[2].out /\ log[3].prev = args.data
       /\ log[4].data = log[3].out /\ log[4].prev = None
       /\ log[5].data = log[4].out
       /\ log[6].data = log[5].out /\ log[6].prev = log[3].out
       /\ log[6].prev # args.data
       /\ result.status = "ok"
       /\ result.data = log[6].out

C7_Witness ==
    /\ block.kind = "encoder" /\ pc = "done"
    /\ block.pre_ff.sequence = <<"n">>
    /\ block.post_ff.sequence = <<"d", "r">>
    /\ block.post_ff.dropout > 0
    /\ log[6].prev # log[4].out

\* C8: a successful decoder block call runs the self-attention stage, the
\* encoder-attention stage and the feed-forward stage (pre, layer, post each)
\* in that order, once each; target_bias goes to self_attention only; source,
\* source_lengths and source_max_length go to enc_attention only, as they
\* were passed in; each post stage gets as prev the target that entered its
\* stage; the result of post_ff is returned.
C8_DecoderPipeline ==
    (block.kind = "decoder" /\ pc = "done")
    => /\ StageNames = <<"pre_self_attention", "self_attention",
                         "post_self_attention", "pre_enc_attention",
                         "enc_attention", "post_enc_attention",
                         "pre_ff", "ff", "post_ff">>
       /\ \A k \in 1..9 :
            /\ log[k].bias = IF k = 2 THEN args.target_bias ELSE None
            /\ log[k].source = IF k = 5 THEN args.source ELSE None
            /\ log[k].source_lengths = IF k = 5 THEN args.source_lengths ELSE None
            /\ log[k].source_max_length = IF k = 5 THEN args.source_max_length ELSE 0
            /\ log[k].data = IF k = 1 THEN args.target ELSE log[k - 1].out
            /\ log[k].status = "ok"
       /\ args.target_bias = Variable("target_bias", <<1, args.length, args.length>>)
       /\ args.source.expr = <<"source">>
       /\ args.source_lengths.expr = <<"source_lengths">>
       /\ log[1].prev = None /\ log[4].prev = None /\ log[7].prev = None
       /\ log[3].prev = args.target
       /\ log[6].prev = log[3].out
       /\ log[9].prev = log[6].out
       /\ result.status = "ok"
       /\ result.data = log[9].out

C8_Witness ==
    /\ block.kind = "decoder" /\ pc = "done"
    /\ block.post_enc_attention.sequence = <<"r", "n">>
    /\ block.pre_enc_attention.sequence = <<"n">>
    /\ log[2].bias = args.target_bias
    /\ log[5].source = args.source

\* C10: a block whose preprocess_sequence holds an "r" fails at its first
\* stage, pre_self_attention, with the residual precondition error, before
\* any attention or feed-forward layer is invoked; a post-process stage
\* always gets a previous tensor and never raises that error.
C10_PreResidualFails ==
    /\ (/\ block.kind \in {"encoder", "decoder"}
        /\ "r" \in Range(block.pre_self_attention.sequence)
        /\ pc # "pre_self_attention")
       => /\ pc = "raised"
          /\ result.status = "AssertionError"
          /\ StageNames = <<"pre_self_attention">>
          /\ log[1].prev = None
    /\ \A k \in 1..Len(log) :
         /\ (log[k].stage \in {"pre_self_attention", "pre_enc_attention", "pre_ff"}
               => log[k].prev = None)
         /\ (log[k].stage \in {"post_self_attention", "post_enc_attention", "post_ff"}
               => log[k].prev # None /\ log[k].status # "AssertionError")

C10_Witness ==
    /\ block.kind = "decoder"
    /\ block.pre_self_attention.sequence = <<"x", "r">>
    /\ block.post_self_attention.sequence = <<"r">>
    /\ pc = "raised"
    /\ result.status = "AssertionError"

====
